---------------------------- MODULE Spec2Model ----------------------------
(***************************************************************************)
(* Titan trader: the fleet plane (MasterOrchestrator, BotManager,          *)
(* DataHandler registrations) and the per-symbol agent (TitanStrategy,     *)
(* PortfolioManager, OrderExecutor).                                       *)
(*                                                                         *)
(* The specifications share the variables:                                 *)
(*   Spec       the program as main() builds it: an empty BotManager, the  *)
(*              orchestrator cycle, start_bot / stop_bot as they execute.  *)
(*   SpecAgent  one agent (AgentSym) constructed and wired as              *)
(*              bot_manager.py lines 29-71 wire it, its run loops          *)
(*              launched, with bars, gateway answers and fill              *)
(*              confirmations as inputs.  start_bot as written raises      *)
(*              before line 68 (see StartBot), so the wired state is the   *)
(*              starting point of SpecAgent and not a state of Spec.       *)
(*   SpecPersist, SpecPrice, SpecShutdown                                  *)
(*              the wired agent with, in turn, save_state (from stop_bot   *)
(*              too) and the construction of a PortfolioManager over the   *)
(*              state file, the DataHandler's price ticks, and a           *)
(*              termination signal.                                        *)
(*   SpecSizing _initiate_grid / _calculate_position_size over the         *)
(*              balances, entry prices and RISK_PCT_PER_TRADE values of    *)
(*              the input sets.                                            *)
(*   SpecBacktester                                                        *)
(*              VectorizedBacktester: the cache of one (ticker, timeframe) *)
(*              and run_optimization_for_ticker over any performances.     *)
(*   SpecWindow the same cache fetched cycle after cycle at full size: the *)
(*              48 hours of the first fetch, then the bars that close.     *)
(*   SpecSelection                                                         *)
(*              the orchestrator cycle over six tickers, one more than it  *)
(*              selects.                                                   *)
(*   SpecRestart                                                           *)
(*              the wired agent stopped, with start_bot running while      *)
(*              stop_bot is suspended at its gather.                       *)
(*                                                                         *)
(* Floats are modelled as exact numbers: prices, quantities and balances   *)
(* are integers, avg_entry_price is an exact fraction [num, den].          *)
(***************************************************************************)
EXTENDS Integers, Sequences, FiniteSets, TLC

\* ------------------------------------------------------------ bounds
\* The orders that wait in the order queue.
MaxQueueLen == 2
\* The signals and the fill confirmations that wait in their queues.
MaxChannelLen == 2
MaxFills == 3
MaxQueueIds == 2
MaxTimestamp == 4
MaxBars == 2
MaxCombos == 2
\* The PriceUpdates followed on the agent's price queue, which nothing reads.
MaxPriceUpdates == 3
\* The most bars that close between two fetches, and the bars that close
\* after the first fetch, in SpecWindow.
MaxNewBars == 3
MaxElapsed == 60

\* ------------------------------------------------- program constants
MAX_ENTRIES == 2
GRID_WIDTH_PCT == 1
RISK_PCT_PER_TRADE == 1
INITIAL_CAPITAL == 10000
TopN == 5
InitialBest == -101
Sentinel == -100
IncrementalLimit == 200
\* The timeframe of the modelled cache key, one of self.timeframes; a bar's
\* timestamp counts timeframes, so consecutive bars differ by one.
Interval == 5

\* ------------------------------------------------------ input domains
Symbols == {"A", "B", "C"}
AgentSym == "A"
AgentQueueId == 1
Qtys == {1}
Prices == {100, 200}
Dirs == {1, -1}
Profits == {-5, 10}
RiskPcts == {1, 3, 5}
Balances == {INITIAL_CAPITAL, 2 * INITIAL_CAPITAL}
Timestamps == 1..MaxTimestamp
NetProfits == {-150, Sentinel, -5, 10}

\* ------------------------------------------------------------ helpers
Abs(x) == IF x < 0 THEN -x ELSE x

RECURSIVE GCD(_, _)
GCD(a, b) == IF b = 0 THEN a ELSE GCD(b, a % b)

\* The fraction n/d (d # 0) in lowest terms with a positive denominator.
Frac(n, d) ==
    IF n = 0 THEN [num |-> 0, den |-> 1]
    ELSE LET g == GCD(Abs(n), Abs(d))
             s == IF d < 0 THEN -1 ELSE 1
         IN  [num |-> s * (n \div g), den |-> Abs(d) \div g]

Zero == [num |-> 0, den |-> 1]

VARIABLES
    \* BotManager, DataHandler, ExchangeConnector, MasterOrchestrator
    active_bots,            \* BotManager.active_bots (its keys)
    strategy_queues,        \* DataHandler.strategy_queues: symbol -> queue id, 0 = absent
    next_queue_id,          \* identity of the next asyncio.Queue() created
    connector_symbols,      \* ExchangeConnector.symbols
    stopping,               \* stop_bot calls suspended at their gather
    current_top_5_tokens,   \* MasterOrchestrator.current_top_5_tokens
    tradable_symbols,       \* MasterOrchestrator.tradable_symbols
    orch_pc,                \* where MasterOrchestrator.run stands
    valid_tokens,           \* run_optimization_cycle's valid_tokens_to_backtest
    \* the agent of AgentSym
    balance_real, position_size, avg_entry_price, n_entries,
    long_grid_prices, short_grid_prices, last_known_price,
    signal_queue, order_queue, fill_confirmation_queue,
    last_signal_sent,
    tasks,                  \* the agent's asyncio tasks
    state_file,             \* bot_state_<symbol>.json
    risk_pct_per_trade,     \* config.RISK_PCT_PER_TRADE (read from the environment)
    price_update_queue,     \* DataHandler.price_update_queues[AgentSym]
    \* VectorizedBacktester, for one (ticker, timeframe)
    data_cache,             \* data_cache[(ticker, tf)]: its bar timestamps, <<>> = no entry
    optimization,           \* the last run_optimization_for_ticker: what it evaluated and returned
    \* history
    bot_manager_calls,      \* the BotManager calls the last reconciliation made, in order
    results,                \* what asyncio.gather returned in the cycle that just completed
    last_op,                \* the operation that ran last and its outcome
    reversal,               \* a reversal flatten in flight / done
    rejected                \* the signal behind the order the gateway rejected last

fleet_vars == <<active_bots, strategy_queues, next_queue_id, connector_symbols,
                stopping, current_top_5_tokens, tradable_symbols, orch_pc, valid_tokens>>
pm_state == <<balance_real, position_size, avg_entry_price, n_entries,
              long_grid_prices, short_grid_prices, last_known_price>>
queue_vars == <<signal_queue, order_queue, fill_confirmation_queue>>
agent_vars == <<pm_state, queue_vars, last_signal_sent, tasks, state_file>>
history_vars == <<last_op, reversal, rejected>>
config_vars == <<risk_pct_per_trade>>
backtester_vars == <<data_cache, optimization>>
other_vars == <<config_vars, backtester_vars, bot_manager_calls, results, price_update_queue>>
vars == <<fleet_vars, agent_vars, history_vars, other_vars>>

Op(op, arg, out) == [op |-> op, arg |-> arg, out |-> out]


\* =====================================================================
\* PortfolioManager
\* =====================================================================

GetPositionStatus(size) ==
    IF size > 0 THEN "LONG" ELSE IF size < 0 THEN "SHORT" ELSE "FLAT"

\* _calculate_position_size: [err |-> TRUE] is the ZeroDivisionError of
\* position_size_usd / entry_price.  The quotient is exact for the balances
\* and prices of this model.
CalculatePositionSize(balance, entry_price) ==
    IF balance <= 0 THEN [err |-> FALSE, qty |-> 0]
    ELSE IF GRID_WIDTH_PCT <= 0 THEN [err |-> FALSE, qty |-> 0]
    ELSE IF entry_price = 0 THEN [err |-> TRUE, qty |-> 0]
    ELSE [err |-> FALSE,
          qty |-> (balance * risk_pct_per_trade) \div (GRID_WIDTH_PCT * entry_price)]

MarketOrder(side, qty) ==
    [side |-> side, order_type |-> "MARKET", qty |-> qty, price |-> 0]

\* side_to_close with a wrong side: closes a long with a BUY.
ExitOrderSameSide(size) ==
    MarketOrder(IF GetPositionStatus(size) = "LONG" THEN "BUY" ELSE "SELL", Abs(size))

\* _exit_position: the order it puts when the position is not FLAT.
ExitOrder(size) ==
    MarketOrder(IF GetPositionStatus(size) = "LONG" THEN "SELL" ELSE "BUY", Abs(size))

IsReversal(sig, status) ==
    \/ sig = "ENTRY_LONG" /\ status = "SHORT"
    \/ sig = "ENTRY_SHORT" /\ status = "LONG"

\* The grid of the other side: levels above the base for a BUY, below it for
\* a SELL.
GridPricesOtherSide(base, side) ==
    [i \in 1..(MAX_ENTRIES - 1) |->
        IF side = "BUY" THEN (base * (100 + i * GRID_WIDTH_PCT)) \div 100
                        ELSE (base * (100 - i * GRID_WIDTH_PCT)) \div 100]

\* _setup_limit_grids: base * (1 -/+ i * grid_pct) for i in range(1, MAX_ENTRIES).
GridPrices(base, side) ==
    [i \in 1..(MAX_ENTRIES - 1) |->
        IF side = "BUY" THEN (base * (100 - i * GRID_WIDTH_PCT)) \div 100
                        ELSE (base * (100 + i * GRID_WIDTH_PCT)) \div 100]

\* The BUY branch dividing by the size before the fill: a sum of the two
\* values, not their weighted mean.
AvgAfterFillOldSize(avg, size, fill) ==
    IF fill.side = "BUY" /\ size > 0
    THEN Frac(avg.num * size + fill.price * fill.qty * avg.den, avg.den * size)
    ELSE IF fill.side = "BUY" THEN Frac(fill.price, 1)
    ELSE Zero

\* avg_entry_price after a fill, lines 114-125.
AvgAfterFill(avg, size, fill) ==
    IF fill.side = "BUY"
    THEN LET new_size == size + fill.qty
         IN  IF new_size > 0
             THEN Frac(avg.num * size + fill.price * fill.qty * avg.den, avg.den * new_size)
             ELSE Zero
    ELSE LET new_size == size - fill.qty
         IN  IF new_size # 0
             THEN Frac(avg.num * Abs(size) + fill.price * fill.qty * avg.den,
                       avg.den * Abs(new_size))
             ELSE Zero

SizeAfterFill(size, fill) ==
    IF fill.side = "BUY" THEN size + fill.qty ELSE size - fill.qty

\* save_state: the document written to the state file.
Snapshot ==
    [balance_real |-> balance_real, position_size |-> position_size,
     avg_entry_price |-> avg_entry_price, n_entries |-> n_entries,
     long_grid_prices |-> long_grid_prices, short_grid_prices |-> short_grid_prices]

\* json.dump / json.load of the state document.  A number is written as its
\* decimal digits and read back from them; a float (avg_entry_price) as the
\* exact value its shortest repr denotes, numerator over denominator.
RECURSIVE Digits(_)
Digits(n) == IF n < 10 THEN <<n>> ELSE Append(Digits(n \div 10), n % 10)

RECURSIVE Number(_)
Number(ds) ==
    IF ds = <<>> THEN 0 ELSE 10 * Number(SubSeq(ds, 1, Len(ds) - 1)) + ds[Len(ds)]

JsonNumber(n) == [neg |-> n < 0, digits |-> Digits(Abs(n))]
ParseNumber(j) == IF j.neg THEN 0 - Number(j.digits) ELSE Number(j.digits)

JsonFloat(f) == [num |-> JsonNumber(f.num), den |-> JsonNumber(f.den)]
ParseFloat(j) == Frac(ParseNumber(j.num), ParseNumber(j.den))

JsonArray(seq) == [i \in 1..Len(seq) |-> JsonNumber(seq[i])]
ParseArray(j) == [i \in 1..Len(j) |-> ParseNumber(j[i])]

\* json.dump(state, f): the members of the object, in the dict's order.
JsonDump(state) ==
    << <<"balance_real", JsonNumber(state.balance_real)>>,
       <<"position_size", JsonNumber(state.position_size)>>,
       <<"avg_entry_price", JsonFloat(state.avg_entry_price)>>,
       <<"n_entries", JsonNumber(state.n_entries)>>,
       <<"long_grid_prices", JsonArray(state.long_grid_prices)>>,
       <<"short_grid_prices", JsonArray(state.short_grid_prices)>> >>

\* The member of the document with this key: <<value>>, or <<>> when the
\* document has none (state.get falls back to its default).
JsonGet(doc, key) ==
    LET idx == {i \in 1..Len(doc) : doc[i][1] = key}
    IN  IF idx = {} THEN <<>> ELSE <<doc[CHOOSE i \in idx : TRUE][2]>>

\* The state of lines 25-30, before _load_state.
DefaultState ==
    [balance_real |-> INITIAL_CAPITAL, position_size |-> 0, avg_entry_price |-> Zero,
     n_entries |-> 0, long_grid_prices |-> <<>>, short_grid_prices |-> <<>>]

\* _load_state without the n_entries line: the count starts again at 0.
LoadStateForgetsEntries(file) ==
    IF file = <<>> THEN DefaultState
    ELSE [file[1] EXCEPT !.n_entries = 0]

\* __init__'s defaults followed by _load_state; file: <<>> when the state
\* file does not exist, else <<the dict save_state dumped>>.
LoadState(file) ==
    IF file = <<>> THEN DefaultState
    ELSE LET doc == JsonDump(file[1])
             Field(key) == JsonGet(doc, key)
         IN  [balance_real |->
                 IF Field("balance_real") = <<>> THEN INITIAL_CAPITAL
                 ELSE ParseNumber(Field("balance_real")[1]),
              position_size |->
                 IF Field("position_size") = <<>> THEN 0
                 ELSE ParseNumber(Field("position_size")[1]),
              avg_entry_price |->
                 IF Field("avg_entry_price") = <<>> THEN Zero
                 ELSE ParseFloat(Field("avg_entry_price")[1]),
              n_entries |->
                 IF Field("n_entries") = <<>> THEN 0
                 ELSE ParseNumber(Field("n_entries")[1]),
              long_grid_prices |->
                 IF Field("long_grid_prices") = <<>> THEN <<>>
                 ELSE ParseArray(Field("long_grid_prices")[1]),
              short_grid_prices |->
                 IF Field("short_grid_prices") = <<>> THEN <<>>
                 ELSE ParseArray(Field("short_grid_prices")[1])]

\* How the write of save_state ends: done, open() raised, or json.dump raised
\* after open() had truncated the file.
SaveOutcomes == {"saved", "open_failed", "dump_failed"}

\* The state file after save_state.  A file cut short holds no document
\* json.load accepts: _load_state keeps the defaults, as without a file.
FileAfterSave(outcome, file, state) ==
    IF outcome = "saved" THEN <<state>>
    ELSE IF outcome = "open_failed" THEN file
    ELSE <<>>

\* A save_state without the except clause.
SaveStateRaisesUncaught(outcome) == outcome # "saved"

\* Whether save_state raises to its caller: the write is inside
\* try / except Exception, which logs.
SaveStateRaises(outcome) == FALSE

\* save_state() on the agent's PortfolioManager.
SaveState(outcome) ==
    /\ state_file' = FileAfterSave(outcome, state_file, Snapshot)
    /\ last_op' = Op("save_state", AgentSym,
                     IF SaveStateRaises(outcome) THEN "raised"
                     ELSE IF outcome = "saved" THEN "saved" ELSE "failed")
    /\ UNCHANGED <<other_vars, fleet_vars, pm_state, queue_vars, last_signal_sent,
                   tasks, reversal, rejected>>

\* PortfolioManager.__init__ for AgentSym: the defaults, then _load_state.
ConstructPortfolioManager ==
    /\ LET loaded == LoadState(state_file)
       IN  /\ balance_real' = loaded.balance_real
           /\ position_size' = loaded.position_size
           /\ avg_entry_price' = loaded.avg_entry_price
           /\ n_entries' = loaded.n_entries
           /\ long_grid_prices' = loaded.long_grid_prices
           /\ short_grid_prices' = loaded.short_grid_prices
    /\ last_known_price' = 0
    /\ last_op' = Op("construct", AgentSym, IF state_file = <<>> THEN "default" ELSE "loaded")
    /\ UNCHANGED <<other_vars, fleet_vars, queue_vars, last_signal_sent, tasks,
                   state_file, reversal, rejected>>

SignalDir(sig) == IF sig = "ENTRY_LONG" THEN 1 ELSE -1

\* A queue that hands out its newest item.
QueueGetNewest(queue) ==
    [item |-> queue[Len(queue)], rest |-> SubSeq(queue, 1, Len(queue) - 1)]

\* `await queue.get()` on an asyncio.Queue that holds items: the oldest item,
\* and the queue without it.
QueueGet(queue) == [item |-> Head(queue), rest |-> Tail(queue)]

\* A signal handler that stages the grid when it submits the entry.
StateAfterSignalStagesGrid(state, sig, entry_price) ==
    IF state.position_size # 0 THEN state
    ELSE [state EXCEPT
            !.long_grid_prices =
                IF sig = "ENTRY_LONG" THEN GridPrices(entry_price, "BUY") ELSE <<>>,
            !.short_grid_prices =
                IF sig = "ENTRY_SHORT" THEN GridPrices(entry_price, "SELL") ELSE <<>>]

\* The fields after _handle_signal: it, _exit_position and _initiate_grid
\* read them and assign none.
StateAfterSignal(state, sig, entry_price) == state

\* _signal_handler_loop with _handle_signal, _exit_position, _initiate_grid.
HandleSignal ==
    /\ tasks.pm_signal = "running"
    /\ signal_queue # <<>>
    /\ Len(order_queue) < MaxQueueLen
    /\ LET sig == QueueGet(signal_queue).item
           status == GetPositionStatus(position_size)
           side == IF sig = "ENTRY_LONG" THEN "BUY" ELSE "SELL"
           sized == CalculatePositionSize(balance_real, last_known_price)
           after == StateAfterSignal(Snapshot, sig, last_known_price)
       IN  /\ signal_queue' = QueueGet(signal_queue).rest
           /\ balance_real' = after.balance_real
           /\ position_size' = after.position_size
           /\ avg_entry_price' = after.avg_entry_price
           /\ n_entries' = after.n_entries
           /\ long_grid_prices' = after.long_grid_prices
           /\ short_grid_prices' = after.short_grid_prices
           /\ IF IsReversal(sig, status)
              THEN /\ order_queue' = Append(order_queue, ExitOrder(position_size))
                   /\ tasks' = tasks
                   /\ reversal' = [phase |-> "inflight", sig |-> sig]
                   /\ last_op' = Op("handle_signal", sig, "flatten")
              ELSE IF status = "FLAT"
              THEN IF sized.err
                   THEN \* the ZeroDivisionError ends the signal loop and run()
                        /\ order_queue' = order_queue
                        /\ tasks' = [tasks EXCEPT !.pm_signal = "failed", !.pm_run = "failed"]
                        /\ reversal' = reversal
                        /\ last_op' = Op("handle_signal", sig, "ZeroDivisionError")
                   ELSE IF sized.qty <= 0
                   THEN /\ order_queue' = order_queue
                        /\ tasks' = tasks
                        /\ reversal' = reversal
                        /\ last_op' = Op("handle_signal", sig, "no_qty")
                   ELSE /\ order_queue' = Append(order_queue, MarketOrder(side, sized.qty))
                        /\ tasks' = tasks
                        /\ reversal' = reversal
                        /\ last_op' = Op("handle_signal", sig, "entry")
              ELSE /\ order_queue' = order_queue
                   /\ tasks' = tasks
                   /\ reversal' = reversal
                   /\ last_op' = Op("handle_signal", sig, "ignored")
    /\ UNCHANGED <<other_vars, fleet_vars, last_known_price, fill_confirmation_queue,
                   last_signal_sent, state_file, rejected>>

\* _fill_handler_loop with _handle_fill_confirmation and _setup_limit_grids.
HandleFill ==
    /\ tasks.pm_fill = "running"
    /\ fill_confirmation_queue # <<>>
    /\ LET fill == QueueGet(fill_confirmation_queue).item
           new_size == SizeAfterFill(position_size, fill)
       IN  /\ fill_confirmation_queue' = QueueGet(fill_confirmation_queue).rest
           /\ position_size' = new_size
           /\ avg_entry_price' = AvgAfterFill(avg_entry_price, position_size, fill)
           /\ n_entries' = n_entries + 1
           /\ long_grid_prices' =
                 IF fill.side = "BUY" THEN GridPrices(fill.price, "BUY") ELSE <<>>
           /\ short_grid_prices' =
                 IF fill.side = "SELL" THEN GridPrices(fill.price, "SELL") ELSE <<>>
           /\ reversal' =
                 IF new_size = 0 /\ reversal.phase = "inflight"
                 THEN [reversal EXCEPT !.phase = "flat"]
                 ELSE IF new_size # 0 /\ reversal.phase = "flat"
                 THEN [phase |-> "none", sig |-> "None"]
                 ELSE reversal
           /\ last_op' = Op("handle_fill", fill.side,
                            IF new_size = 0 THEN "flattened" ELSE "open")
    /\ UNCHANGED <<other_vars, fleet_vars, balance_real, last_known_price, signal_queue,
                   order_queue, last_signal_sent, tasks, state_file, rejected>>

\* A FillConfirmation arriving on the agent's fill channel.  The fill is an
\* input: any side, quantity and price the channel may carry.  (The executor
\* of this repository puts none for a MARKET order, see ExecutorFills.)
FillArrives(side, qty, price) ==
    /\ tasks.pm_fill = "running"
    /\ Len(fill_confirmation_queue) < MaxChannelLen
    /\ n_entries + Len(fill_confirmation_queue) < MaxFills
    /\ fill_confirmation_queue' =
          Append(fill_confirmation_queue, [side |-> side, qty |-> qty, price |-> price])
    /\ last_op' = Op("fill_arrives", side, "put")
    /\ UNCHANGED <<other_vars, fleet_vars, pm_state, signal_queue, order_queue,
                   last_signal_sent, tasks, state_file, reversal, rejected>>


\* =====================================================================
\* TitanStrategy
\* =====================================================================

\* The signal _generate_signals builds from the closed bar's direction.
DesiredSignal(dir, status) ==
    IF dir = 1 /\ status # "LONG" THEN "ENTRY_LONG"
    ELSE IF dir = -1 /\ status # "SHORT" THEN "ENTRY_SHORT"
    ELSE "None"

\* The check without the memo: every signal built is put.
EmitsAlways(signal, last) == signal # "None"

\* `if signal and signal != self.last_signal_sent`.
Emits(signal, last) == signal # "None" /\ signal # last

DirName(dir) == IF dir = 1 THEN "up" ELSE "down"

\* TitanStrategy.run with _generate_signals, on the payload the DataHandler
\* put on the registered strategy queue; dir: the closed bar's direction.
GenerateSignals(dir) ==
    /\ tasks.strategy = "running"
    /\ strategy_queues[AgentSym] = AgentQueueId
    /\ Len(signal_queue) < MaxChannelLen
    /\ LET signal == DesiredSignal(dir, GetPositionStatus(position_size))
           emit == Emits(signal, last_signal_sent)
       IN  /\ signal_queue' = IF emit THEN Append(signal_queue, signal) ELSE signal_queue
           /\ last_signal_sent' = IF emit THEN signal ELSE last_signal_sent
           /\ rejected' = IF emit THEN "None" ELSE rejected
           /\ reversal' = IF reversal.phase # "none" /\ dir # SignalDir(reversal.sig)
                          THEN [phase |-> "none", sig |-> "None"]
                          ELSE reversal
           /\ last_op' = Op("generate_signals", DirName(dir),
                            IF emit THEN "put"
                            ELSE IF signal = "None" THEN "none" ELSE "suppressed")
    /\ UNCHANGED <<other_vars, fleet_vars, pm_state, order_queue, fill_confirmation_queue,
                   tasks, state_file>>

\* =====================================================================
\* OrderExecutor
\* =====================================================================

\* Whether run() reaches fill_confirmation_queue.put: the gateway accepted,
\* and for a MARKET order connector.get_last_trade_price is called first,
\* which ExchangeConnector does not define (AttributeError, caught by the
\* loop's `except Exception`).
ExecutorFills(order, accepted) == accepted /\ order.order_type = "LIMIT"

\* One iteration of OrderExecutor.run; accepted: retCode == 0.
ExecuteOrder(accepted) ==
    /\ tasks.executor = "running"
    /\ order_queue # <<>>
    /\ LET order == Head(order_queue)
       IN  /\ order_queue' = Tail(order_queue)
           /\ fill_confirmation_queue' =
                 IF ExecutorFills(order, accepted)
                 THEN Append(fill_confirmation_queue,
                             [side |-> order.side, qty |-> order.qty, price |-> order.price])
                 ELSE fill_confirmation_queue
           /\ rejected' = IF accepted THEN rejected
                          ELSE IF order.side = "BUY" THEN "ENTRY_LONG" ELSE "ENTRY_SHORT"
           /\ last_op' = Op("execute_order", order.side,
                            IF ~accepted THEN "rejected"
                            ELSE IF order.order_type = "LIMIT" THEN "filled"
                            ELSE "AttributeError")
    /\ UNCHANGED <<other_vars, fleet_vars, pm_state, signal_queue, last_signal_sent,
                   tasks, state_file, reversal>>


\* =====================================================================
\* BotManager
\* =====================================================================
\* The model carries the components of one agent, AgentSym's: a symbol in
\* active_bots is AgentSym.

\* task.cancel() on strategy.run(), portfolio_manager.run() and
\* order_executor.run().  Cancelling run() cancels the two loops it gathers;
\* a run() that already ended with an exception is not cancelled, and its
\* surviving loop is not reached.
CancelTasks(ts) ==
    [strategy  |-> IF ts.strategy = "running" THEN "cancelled" ELSE ts.strategy,
     executor  |-> IF ts.executor = "running" THEN "cancelled" ELSE ts.executor,
     pm_run    |-> IF ts.pm_run = "running" THEN "cancelled" ELSE ts.pm_run,
     pm_signal |-> IF ts.pm_run = "running" /\ ts.pm_signal = "running"
                   THEN "cancelled" ELSE ts.pm_signal,
     pm_fill   |-> IF ts.pm_run = "running" /\ ts.pm_fill = "running"
                   THEN "cancelled" ELSE ts.pm_fill]

StartBotReturnsEarly(symbol) == symbol \in active_bots

\* start_bot.  On a symbol that is not active it creates the queues and
\* registers them with the DataHandler (line 37), then calls
\* connector.add_symbol (line 38), which ExchangeConnector does not define:
\* the AttributeError leaves start_bot before the components are built and
\* before active_bots[symbol] is set.
StartBot(symbol) ==
    /\ IF StartBotReturnsEarly(symbol)
       THEN /\ last_op' = Op("start_bot", symbol, "already_running")
            /\ UNCHANGED <<strategy_queues, next_queue_id>>
       ELSE /\ next_queue_id <= MaxQueueIds
            /\ strategy_queues' = [strategy_queues EXCEPT ![symbol] = next_queue_id]
            /\ next_queue_id' = next_queue_id + 1
            /\ last_op' = Op("start_bot", symbol, "AttributeError")
    /\ UNCHANGED <<other_vars, active_bots, connector_symbols, stopping, current_top_5_tokens,
                   tradable_symbols, orch_pc, valid_tokens, agent_vars, reversal, rejected>>

\* stop_bot deregisters before it looks at active_bots.
StopBotReturnsEarlyNever(symbol) == FALSE

StopBotReturnsEarly(symbol) == symbol \notin active_bots

\* stop_bot up to its `await asyncio.gather(...)`: no await before it
\* suspends (the order queue is unbounded), so the steps are one step.
StopBot(symbol, manage_position) ==
    IF StopBotReturnsEarly(symbol)
    THEN /\ last_op' = Op("stop_bot", symbol, "noop")
         /\ UNCHANGED <<other_vars, fleet_vars, agent_vars, reversal, rejected>>
    ELSE /\ Len(order_queue) < MaxQueueLen
         /\ active_bots' = active_bots \ {symbol}
         /\ order_queue' = IF manage_position /\ position_size # 0
                           THEN Append(order_queue, ExitOrder(position_size))
                           ELSE order_queue
         /\ \E outcome \in SaveOutcomes :
               /\ state_file' = FileAfterSave(outcome, state_file, Snapshot)
               /\ IF SaveStateRaises(outcome)
                  THEN \* the error leaves stop_bot at line 87
                       /\ tasks' = tasks
                       /\ stopping' = stopping
                       /\ last_op' = Op("stop_bot", symbol, "raised")
                  ELSE /\ tasks' = CancelTasks(tasks)
                       /\ stopping' = stopping \cup {symbol}
                       /\ last_op' = Op("stop_bot", symbol,
                                        IF manage_position THEN "managed" ELSE "unmanaged")
         /\ UNCHANGED <<other_vars, strategy_queues, next_queue_id, connector_symbols,
                        current_top_5_tokens, tradable_symbols, orch_pc, valid_tokens,
                        pm_state, signal_queue, fill_confirmation_queue,
                        last_signal_sent, reversal, rejected>>

\* stop_bot after the gather: deregister_bot_queues, then
\* connector.remove_symbol, which ExchangeConnector does not define.
StopBotFinish(symbol) ==
    /\ symbol \in stopping
    /\ stopping' = stopping \ {symbol}
    /\ strategy_queues' = [strategy_queues EXCEPT ![symbol] = 0]
    /\ last_op' = Op("stop_bot_finish", symbol, "AttributeError")
    /\ UNCHANGED <<other_vars, active_bots, next_queue_id, connector_symbols, current_top_5_tokens,
                   tradable_symbols, orch_pc, valid_tokens, agent_vars, reversal, rejected>>

\* =====================================================================
\* MasterOrchestrator
\* =====================================================================

\* Insert ticker t after every ticker whose profit is not smaller: the
\* stable descending order of list.sort(key=..., reverse=True).
RECURSIVE InsertDesc(_, _, _)
InsertDesc(sorted, t, profit) ==
    IF sorted = <<>> THEN <<t>>
    ELSE IF profit[Head(sorted)] >= profit[t]
         THEN <<Head(sorted)>> \o InsertDesc(Tail(sorted), t, profit)
         ELSE <<t>> \o sorted

RECURSIVE SortDesc(_, _)
SortDesc(seq, profit) ==
    IF seq = <<>> THEN <<>>
    ELSE InsertDesc(SortDesc(SubSeq(seq, 1, Len(seq) - 1), profit), seq[Len(seq)], profit)

Range(seq) == {seq[i] : i \in 1..Len(seq)}

\* What asyncio.gather returns: one result per valid ticker, in order; found
\* = FALSE is the None of a ticker without a profitable combination.
GatheredResults(valid, succeeded, profit) ==
    [i \in 1..Len(valid) |->
        IF valid[i] \in succeeded
        THEN [ticker |-> valid[i], found |-> TRUE, net_profit |-> profit[valid[i]]]
        ELSE [ticker |-> valid[i], found |-> FALSE, net_profit |-> 0]]

\* The first five successful results, unranked.
NewTop5Unranked(valid, succeeded, profit) ==
    LET successful == SelectSeq(valid, LAMBDA t : t \in succeeded)
    IN  Range(SubSeq(successful, 1, IF Len(successful) < TopN THEN Len(successful) ELSE TopN))

\* successful_results[:5] as a set of tickers.
NewTop5(valid, succeeded, profit) ==
    LET successful == SelectSeq(valid, LAMBDA t : t \in succeeded)
        ranked == SortDesc(successful, profit)
    IN  Range(SubSeq(ranked, 1, IF Len(ranked) < TopN THEN Len(ranked) ELSE TopN))

\* The candidate lists fetch_top_tokens may return: tickers without repetition.
CandidateLists ==
    {c \in UNION {[1..n -> Symbols] : n \in 0..Cardinality(Symbols)} :
        \A i, j \in 1..Len(c) : i # j => c[i] # c[j]}

\* A refresh that forgets the stored set when the fetch fails.
TradableAfterFetchForgets(fetch_ok, universe, stored) ==
    IF fetch_ok THEN universe ELSE {}

\* fetch_tradable_bybit_symbols: self.tradable_symbols after the call; it is
\* assigned only from a response with retCode 0.
TradableAfterFetch(fetch_ok, universe, stored) ==
    IF fetch_ok THEN universe ELSE stored

\* run_optimization_cycle, step 1: fetch_tradable_bybit_symbols.  A failed
\* fetch keeps the stored set; an empty set halts the cycle.
FetchTradableSymbols(fetch_ok, universe) ==
    /\ orch_pc = "cycle"
    /\ LET tradable == TradableAfterFetch(fetch_ok, universe, tradable_symbols)
       IN  /\ tradable_symbols' = tradable
           /\ orch_pc' = IF tradable = {} THEN "sleep" ELSE "fetch_top_tokens"
           /\ last_op' = Op("fetch_tradable", IF fetch_ok THEN "fetched" ELSE "failed",
                            IF tradable = {} THEN "halted" ELSE "ok")
    /\ UNCHANGED <<other_vars, active_bots, strategy_queues, next_queue_id, connector_symbols,
                   stopping, current_top_5_tokens, valid_tokens, agent_vars,
                   reversal, rejected>>

\* Steps 2 and 3: fetch_top_tokens ([] on failure) and the filter.
FetchTopTokens(candidates) ==
    /\ orch_pc = "fetch_top_tokens"
    /\ LET valid == SelectSeq(candidates, LAMBDA t : t \in tradable_symbols)
       IN  /\ valid_tokens' = valid
           /\ orch_pc' = IF valid = <<>> THEN "sleep" ELSE "backtests"
           /\ last_op' = Op("fetch_top_tokens", "-", IF valid = <<>> THEN "halted" ELSE "ok")
    /\ UNCHANGED <<other_vars, active_bots, strategy_queues, next_queue_id, connector_symbols,
                   stopping, current_top_5_tokens, tradable_symbols, agent_vars,
                   reversal, rejected>>

\* Steps 4 to 6: the gathered backtests (succeeded: the tickers with a
\* result, profit: their net_profit), the ranking and the reconciliation.
\* The calls to bot_manager.start_bot and stop_bot are commented out in the
\* source (lines 123, 128): the loops only log.
Reconcile(succeeded, profit) ==
    /\ orch_pc = "backtests"
    /\ current_top_5_tokens' = NewTop5(valid_tokens, succeeded, profit)
    /\ results' = GatheredResults(valid_tokens, succeeded, profit)
    /\ valid_tokens' = <<>>
    /\ orch_pc' = "sleep"
    /\ bot_manager_calls' = <<>>
    /\ last_op' = Op("reconcile", "-", "completed")
    /\ UNCHANGED <<config_vars, backtester_vars, price_update_queue, active_bots, strategy_queues, next_queue_id, connector_symbols,
                   stopping, tradable_symbols, agent_vars, reversal, rejected>>

\* Step 4 when a backtest raises: asyncio.gather (no return_exceptions)
\* re-raises in run_optimization_cycle, which has no handler, and neither has
\* the loop of run(): the orchestrator task ends with the exception.
BacktestRaises ==
    /\ orch_pc = "backtests"
    /\ valid_tokens' = <<>>
    /\ orch_pc' = "failed"
    /\ last_op' = Op("backtests", "-", "raised")
    /\ UNCHANGED <<other_vars, active_bots, strategy_queues, next_queue_id, connector_symbols,
                   stopping, current_top_5_tokens, tradable_symbols, agent_vars,
                   reversal, rejected>>

\* MasterOrchestrator.run: the 15 minute sleep, then the next cycle.
NextCycle ==
    /\ orch_pc = "sleep"
    /\ orch_pc' = "cycle"
    /\ last_op' = Op("sleep", "-", "-")
    /\ results' = <<>>
    /\ UNCHANGED <<config_vars, backtester_vars, bot_manager_calls, price_update_queue, active_bots, strategy_queues, next_queue_id, connector_symbols,
                   stopping, current_top_5_tokens, tradable_symbols, valid_tokens,
                   agent_vars, reversal, rejected>>

\* =====================================================================
\* VectorizedBacktester
\* =====================================================================

\* The rows of a kline response as a frame sorted by its index:
\* set_index('timestamp').sort_index().
\* The timestamps of bars that lie in lo..hi, ascending (by halving the
\* range, so that a 48-hour window sorts in a few levels).
RECURSIVE SortBetween(_, _, _)
SortBetween(bars, lo, hi) ==
    IF bars = {} THEN <<>>
    ELSE IF lo = hi THEN <<lo>>
    ELSE LET mid == (lo + hi) \div 2
         IN  SortBetween({t \in bars : t <= mid}, lo, mid)
                 \o SortBetween({t \in bars : t > mid}, mid + 1, hi)

SortIndex(bars) ==
    IF bars = {} THEN <<>>
    ELSE SortBetween(bars, CHOOSE t \in bars : \A u \in bars : t <= u,
                           CHOOSE t \in bars : \A u \in bars : t >= u)

\* combined_df[~combined_df.index.duplicated(keep='last')]: a row stays when
\* no later row has its timestamp; the rows keep their order.
DropDuplicatedKeepLast(index) ==
    LET Kept(i) == \A j \in (i + 1)..Len(index) : index[j] # index[i]
        rows == SortIndex({i \in 1..Len(index) : Kept(i)})
    IN  [k \in 1..Len(rows) |-> index[rows[k]]]

\* df.tail(limit).
TailRows(index, limit) ==
    IF Len(index) <= limit THEN index
    ELSE SubSeq(index, Len(index) - limit + 1, Len(index))

\* `limit = int(48 * 60 / interval)` of the first fetch: the bars of 48 hours.
FullLimit == (48 * 60) \div Interval

\* The cache entry after _fetch_historical_data; ok: the request returned
\* retCode 0 without raising, bars: the timestamps of the rows it returned.
CacheAfterFetch(cache, ok, bars) ==
    IF ok /\ bars # {}
    THEN IF cache # <<>>
         THEN TailRows(DropDuplicatedKeepLast(cache \o SortIndex(bars)), IncrementalLimit)
         ELSE SortIndex(bars)
    ELSE cache

\* _fetch_historical_data(ticker, interval) for one cache key.
FetchHistoricalData(ok, bars) ==
    /\ data_cache' = CacheAfterFetch(data_cache, ok, bars)
    /\ last_op' = Op("fetch_historical_data", IF data_cache = <<>> THEN "full" ELSE "incremental",
                     IF ok /\ bars # {} THEN "cached" ELSE "kept")
    /\ UNCHANGED <<config_vars, optimization, bot_manager_calls, results, price_update_queue, fleet_vars,
                   agent_vars,
                   reversal, rejected>>

\* The loops of run_optimization_for_ticker over the net_profit of the
\* combinations it evaluates, in order: a combination replaces the best so
\* far when its net_profit is strictly greater, starting from -101.
BestOf(evaluated) ==
    LET F[i \in 0..Len(evaluated)] ==
            IF i = 0 THEN [found |-> FALSE, best |-> 0, net_profit |-> InitialBest]
            ELSE IF evaluated[i] > F[i - 1].net_profit
                 THEN [found |-> TRUE, best |-> i, net_profit |-> evaluated[i]]
                 ELSE F[i - 1]
    IN  F[Len(evaluated)]

\* run_optimization_for_ticker: found = FALSE is the None it returns when
\* best_overall_params stayed empty.
RunOptimizationForTicker(evaluated) ==
    /\ optimization' = [evaluated |-> evaluated] @@ BestOf(evaluated)
    /\ last_op' = Op("run_optimization_for_ticker", "-",
                     IF BestOf(evaluated).found THEN "result" ELSE "None")
    /\ UNCHANGED <<config_vars, data_cache, bot_manager_calls, results, price_update_queue, fleet_vars,
                   agent_vars,
                   reversal, rejected>>

\* =====================================================================
\* DataHandler
\* =====================================================================

\* _process_tick for a trade of AgentSym: the price goes to the symbol's
\* price update queue.  No component reads that queue: PortfolioManager has
\* no price channel, and run() gathers the signal and the fill loop only.
ProcessTick(price) ==
    /\ strategy_queues[AgentSym] # 0
    /\ Len(price_update_queue) < MaxPriceUpdates
    /\ price_update_queue' = Append(price_update_queue, price)
    /\ last_op' = Op("process_tick", AgentSym, "put")
    /\ UNCHANGED <<config_vars, backtester_vars, bot_manager_calls, results, fleet_vars,
                   agent_vars, reversal, rejected>>

\* =====================================================================
\* main
\* =====================================================================

\* The active_bots of the BotManager handle_shutdown is given:
\* main_bot_manager, built in the __main__ block on a connector and a data
\* handler of its own (lines 75-77); main() builds another BotManager for the
\* fleet (line 46).  No start_bot is ever called on main_bot_manager.
ShutdownBotManagerActive == {}

\* A termination signal.  handle_shutdown saves the states of the active
\* bots of the manager it was given, then cancels running_tasks (the three
\* core service tasks); main() returns and the loop is closed with the
\* agent's tasks still pending.  (Started through app.py the process has no
\* handler at all, and line 76 passes DataHandler an argument it does not
\* take: in every case no agent of the fleet is saved.)
HandleShutdown ==
    /\ orch_pc # "cancelled"
    /\ state_file' = IF AgentSym \in ShutdownBotManagerActive THEN <<Snapshot>> ELSE state_file
    /\ orch_pc' = "cancelled"
    /\ tasks' = [t \in DOMAIN tasks |-> IF tasks[t] = "running" THEN "destroyed" ELSE tasks[t]]
    /\ last_op' = Op("handle_shutdown", "-", "cancelled")
    /\ UNCHANGED <<other_vars, active_bots, strategy_queues, next_queue_id, connector_symbols,
                   stopping, current_top_5_tokens, tradable_symbols, valid_tokens,
                   pm_state, queue_vars, last_signal_sent, reversal, rejected>>

\* =====================================================================
\* Specifications
\* =====================================================================

\* PortfolioManager.__init__ with no state file, TitanStrategy.__init__.
InitComponents ==
    /\ balance_real = INITIAL_CAPITAL
    /\ position_size = 0
    /\ avg_entry_price = Zero
    /\ n_entries = 0
    /\ long_grid_prices = <<>>
    /\ short_grid_prices = <<>>
    /\ last_known_price = 0
    /\ signal_queue = <<>>
    /\ order_queue = <<>>
    /\ fill_confirmation_queue = <<>>
    /\ price_update_queue = <<>>
    /\ last_signal_sent = "None"
    /\ state_file = <<>>
    /\ reversal = [phase |-> "none", sig |-> "None"]
    /\ rejected = "None"
    /\ last_op = Op("init", "-", "-")

\* main(): BotManager.__init__, DataHandler.__init__, MasterOrchestrator.__init__.
InitFleet ==
    /\ connector_symbols = {"BTCUSDT"}
    /\ stopping = {}
    /\ current_top_5_tokens = {}
    /\ tradable_symbols = {}
    /\ orch_pc = "cycle"
    /\ valid_tokens = <<>>
    /\ bot_manager_calls = <<>>
    /\ results = <<>>

\* Config as the environment leaves it, VectorizedBacktester.__init__.
InitConfig == risk_pct_per_trade = RISK_PCT_PER_TRADE

InitBacktester ==
    /\ data_cache = <<>>
    /\ optimization = [evaluated |-> <<>>, found |-> FALSE, best |-> 0, net_profit |-> InitialBest]

Init ==
    /\ InitFleet
    /\ InitComponents
    /\ InitConfig
    /\ InitBacktester
    /\ active_bots = {}
    /\ strategy_queues = [s \in Symbols |-> 0]
    /\ next_queue_id = 1
    /\ tasks = [strategy |-> "none", executor |-> "none", pm_run |-> "none",
                pm_signal |-> "none", pm_fill |-> "none"]

Next ==
    \/ \E s \in Symbols : StartBot(s)
    \/ \E s \in Symbols, m \in BOOLEAN : StopBot(s, m)
    \/ \E ok \in BOOLEAN, u \in SUBSET Symbols : FetchTradableSymbols(ok, u)
    \/ \E c \in CandidateLists : FetchTopTokens(c)
    \/ \E succ \in SUBSET Range(valid_tokens), p \in [Range(valid_tokens) -> Profits] :
          Reconcile(succ, p)
    \/ BacktestRaises
    \/ NextCycle

Spec == Init /\ [][Next]_vars

\* The agent of AgentSym as start_bot lines 29-71 wire it.
InitAgent ==
    /\ InitFleet
    /\ InitComponents
    /\ InitConfig
    /\ InitBacktester
    /\ active_bots = {AgentSym}
    /\ strategy_queues = [s \in Symbols |-> IF s = AgentSym THEN AgentQueueId ELSE 0]
    /\ next_queue_id = AgentQueueId + 1
    /\ tasks = [strategy |-> "running", executor |-> "running", pm_run |-> "running",
                pm_signal |-> "running", pm_fill |-> "running"]

NextAgent ==
    \/ \E d \in Dirs : GenerateSignals(d)
    \/ HandleSignal
    \/ \E side \in {"BUY", "SELL"}, q \in Qtys, p \in Prices : FillArrives(side, q, p)
    \/ HandleFill
    \/ \E a \in BOOLEAN : ExecuteOrder(a)
    \/ \E m \in BOOLEAN : StopBot(AgentSym, m)
    \/ StopBotFinish(AgentSym)

SpecAgent == InitAgent /\ [][NextAgent]_vars

\* PortfolioManager construction over the state file: fills change the
\* state in memory, save_state writes it, a construction reads it back.
NextPersist ==
    \/ \E side \in {"BUY", "SELL"}, q \in Qtys, p \in Prices : FillArrives(side, q, p)
    \/ HandleFill
    \/ \E outcome \in SaveOutcomes : SaveState(outcome)
    \/ ConstructPortfolioManager
    \/ \E m \in BOOLEAN : StopBot(AgentSym, m)
    \/ StopBotFinish(AgentSym)

SpecPersist == InitAgent /\ [][NextPersist]_vars

\* The net_profit lists run_optimization_for_ticker may come to evaluate; a
\* timeframe without data contributes none.
EvaluatedLists == UNION {[1..n -> NetProfits] : n \in 0..MaxCombos}

\* The backtester on one ticker: fetches of any rows, optimizations over any
\* performances.
NextBacktester ==
    \/ \E ok \in BOOLEAN, bars \in {b \in SUBSET Timestamps : Cardinality(b) <= MaxBars} :
          FetchHistoricalData(ok, bars)
    \/ \E e \in EvaluatedLists : RunOptimizationForTicker(e)

SpecBacktester == Init /\ [][NextBacktester]_vars

\* The wired agent stopped and started again: start_bot may run while
\* stop_bot is suspended at its gather.
NextRestart ==
    \/ \E side \in {"BUY", "SELL"}, q \in Qtys, p \in Prices : FillArrives(side, q, p)
    \/ HandleFill
    \/ \E m \in BOOLEAN : StopBot(AgentSym, m)
    \/ StartBot(AgentSym)
    \/ StopBotFinish(AgentSym)

SpecRestart == InitAgent /\ [][NextRestart]_vars

\* The selection over more tickers than the five it keeps: the tickers the
\* exchange lists and the candidate lists fetch_top_tokens returns.
Tickers == Symbols \cup {"D", "E", "F"}

SelectionCandidates ==
    {<<"A", "B", "C", "D", "E", "F">>, <<"F", "E", "D", "C", "B", "A">>,
     <<"D", "G", "A">>, <<>>}

NextSelection ==
    \/ \E ok \in BOOLEAN, u \in {Tickers, Tickers \ {"F"}, {}} : FetchTradableSymbols(ok, u)
    \/ \E c \in SelectionCandidates : FetchTopTokens(c)
    \/ \E succ \in SUBSET Range(valid_tokens), p \in [Range(valid_tokens) -> Profits] :
          Reconcile(succ, p)
    \/ NextCycle

SpecSelection == Init /\ [][NextSelection]_vars

\* The bars the exchange holds when first asked: a new listing, the
\* incremental limit, the 48 hours asked for.
HistoryLengths == {1, IncrementalLimit, FullLimit}

\* The responses of get_kline to the request _fetch_historical_data makes:
\* without a cache, the latest bars up to limit = FullLimit; with one, the
\* bars that closed after the last cached one (start = last + 1), no more
\* than limit = IncrementalLimit.
KlineResponses(cache) ==
    IF cache = <<>>
    THEN {1..k : k \in HistoryLengths}
    ELSE LET last == cache[Len(cache)]
         IN  {(last + 1)..(last + n) :
                 n \in {m \in 0..MaxNewBars : last + m <= FullLimit + MaxElapsed}}

\* One cache key fetched cycle after cycle from a well-behaved exchange.
NextWindow ==
    \E ok \in BOOLEAN, bars \in KlineResponses(data_cache) : FetchHistoricalData(ok, bars)

SpecWindow == Init /\ [][NextWindow]_vars

\* _initiate_grid and _calculate_position_size as functions of their inputs:
\* a FLAT agent whose balance, entry price (last_known_price) and configured
\* RISK_PCT_PER_TRADE are drawn from the input sets, driven by signals.
InitSizing ==
    /\ InitFleet
    /\ InitBacktester
    /\ risk_pct_per_trade \in RiskPcts
    /\ balance_real \in Balances
    /\ last_known_price \in Prices
    /\ position_size = 0
    /\ avg_entry_price = Zero
    /\ n_entries = 0
    /\ long_grid_prices = <<>>
    /\ short_grid_prices = <<>>
    /\ signal_queue = <<>>
    /\ order_queue = <<>>
    /\ fill_confirmation_queue = <<>>
    /\ price_update_queue = <<>>
    /\ last_signal_sent = "None"
    /\ state_file = <<>>
    /\ reversal = [phase |-> "none", sig |-> "None"]
    /\ rejected = "None"
    /\ last_op = Op("init", "-", "-")
    /\ active_bots = {AgentSym}
    /\ strategy_queues = [s \in Symbols |-> IF s = AgentSym THEN AgentQueueId ELSE 0]
    /\ next_queue_id = AgentQueueId + 1
    /\ tasks = [strategy |-> "running", executor |-> "running", pm_run |-> "running",
                pm_signal |-> "running", pm_fill |-> "running"]

NextSizing ==
    \/ \E d \in Dirs : GenerateSignals(d)
    \/ HandleSignal
    \/ \E a \in BOOLEAN : ExecuteOrder(a)

SpecSizing == InitSizing /\ [][NextSizing]_vars

\* The agent's price path: ticks of AgentSym arrive at the DataHandler while
\* the strategy, the portfolio manager's two loops and the executor run.
NextPrice ==
    \/ \E p \in Prices : ProcessTick(p)
    \/ \E side \in {"BUY", "SELL"}, q \in Qtys, p \in Prices : FillArrives(side, q, p)
    \/ HandleFill
    \/ \E d \in Dirs : GenerateSignals(d)
    \/ HandleSignal
    \/ \E a \in BOOLEAN : ExecuteOrder(a)

SpecPrice == InitAgent /\ [][NextPrice]_vars

\* The running agent and a termination signal: fills move the position
\* until the signal arrives.
NextShutdown ==
    \/ \E side \in {"BUY", "SELL"}, q \in Qtys, p \in Prices : FillArrives(side, q, p)
    \/ HandleFill
    \/ HandleShutdown

SpecShutdown == InitAgent /\ [][NextShutdown]_vars

\* =====================================================================
\* Claims
\* =====================================================================

\* C1: whenever position_size is 0, avg_entry_price is 0, n_entries is 0 and
\* both grid lists are empty.
C1_FlatMeansReset ==
    position_size = 0 =>
        /\ avg_entry_price = Zero
        /\ n_entries = 0
        /\ long_grid_prices = <<>>
        /\ short_grid_prices = <<>>

\* C2: 0 <= n_entries <= MAX_ENTRIES in every state, whatever fills arrive.
C2_EntriesBounded == 0 <= n_entries /\ n_entries <= MAX_ENTRIES

\* C3: after a cycle that ran to completion the symbols with an active agent
\* are the cycle's selection.
C3_ActiveEqualsSelection ==
    (last_op.op = "reconcile" /\ last_op.out = "completed")
        => active_bots = current_top_5_tokens

\* C4: handling a reversal signal puts exactly one order, the MARKET order
\* that flattens the position (opposite side, qty = |position_size|); and
\* every order put while the position is not FLAT is that flattening order, so
\* no entry in the opposing direction is put before the position is FLAT.
C4_ReversalFlattensOnly ==
    [][LET flatten == [side |-> IF position_size > 0 THEN "SELL" ELSE "BUY",
                       order_type |-> "MARKET", qty |-> Abs(position_size), price |-> 0]
       IN  /\ (/\ last_op'.op = "handle_signal"
               /\ signal_queue # <<>>
               /\ IsReversal(Head(signal_queue), GetPositionStatus(position_size)))
                  => order_queue' = Append(order_queue, flatten)
           /\ (position_size # 0 /\ order_queue' # order_queue
               /\ Len(order_queue') >= Len(order_queue))
                  => order_queue' = Append(order_queue, flatten)]_vars

\* C4: a reversal signal was handled and its flattening order is queued
\* while the position is still open.
C4_Witness ==
    /\ last_op.op = "handle_signal"
    /\ last_op.out = "flatten"
    /\ position_size # 0
    /\ order_queue # <<>>
    /\ order_queue[Len(order_queue)].qty = Abs(position_size)

\* C5: once a reversal's flattening fill has left the agent FLAT, a signal
\* tick whose direction is still the new one puts the entry signal of that
\* direction on the signal channel (the duplicate memo does not hold it back).
C5_ReentryAfterReversal ==
    [][(/\ last_op'.op = "generate_signals"
        /\ reversal.phase = "flat"
        /\ position_size = 0
        /\ last_op'.arg = DirName(SignalDir(reversal.sig)))
           => signal_queue' = Append(signal_queue, reversal.sig)]_vars

\* C6: a fill that brings position_size to 0 adds the realized P&L to
\* balance_real ((price - avg) * qty for a closed long, (avg - price) * qty
\* for a closed short) and resets avg_entry_price, n_entries and the grids.
C6_FlattenRealizesPnl ==
    [][(last_op'.op = "handle_fill" /\ position_size # 0 /\ position_size' = 0)
           => LET fill == Head(fill_confirmation_queue)
                  gain == IF position_size > 0
                          THEN fill.price * avg_entry_price.den - avg_entry_price.num
                          ELSE avg_entry_price.num - fill.price * avg_entry_price.den
              IN  /\ (balance_real' - balance_real) * avg_entry_price.den = gain * fill.qty
                  /\ avg_entry_price' = Zero
                  /\ n_entries' = 0
                  /\ long_grid_prices' = <<>>
                  /\ short_grid_prices' = <<>>]_vars

\* C7: stop_bot with manage_position on an open position puts exactly one
\* flattening MARKET order, cancels the agent's tasks only once that order's
\* fill has left the position FLAT, and persists the flat state; on a FLAT
\* position it puts no order.
C7_StopFlattensAndWaits ==
    [][(last_op'.op = "stop_bot" /\ last_op'.out = "managed")
           => IF position_size # 0
              THEN /\ order_queue' =
                         Append(order_queue,
                                [side |-> IF position_size > 0 THEN "SELL" ELSE "BUY",
                                 order_type |-> "MARKET", qty |-> Abs(position_size),
                                 price |-> 0])
                   /\ (tasks'.executor = "cancelled" => position_size' = 0)
                   /\ state_file' # <<>>
                   /\ state_file'[1].position_size = 0
              ELSE order_queue' = order_queue]_vars

\* C8: an order the gateway rejects yields no FillConfirmation and leaves the
\* agent state unchanged; and on a later tick on which the same signal is
\* still warranted (same trend, same position status) the signal is put
\* again, so that the order is issued again.
C8_RejectionReevaluated ==
    [][/\ (last_op'.op = "execute_order" /\ last_op'.out = "rejected")
              => /\ fill_confirmation_queue' = fill_confirmation_queue
                 /\ UNCHANGED pm_state
       /\ (/\ last_op'.op = "generate_signals"
           /\ rejected # "None"
           /\ DesiredSignal(IF last_op'.arg = "up" THEN 1 ELSE -1,
                            GetPositionStatus(position_size)) = rejected)
              => signal_queue' = Append(signal_queue, rejected)]_vars

C10_StopInactiveNoop ==
    [][(last_op'.op = "stop_bot" /\ last_op'.arg \notin active_bots)
           => UNCHANGED <<active_bots, strategy_queues, connector_symbols, stopping,
                          state_file, order_queue, pm_state, tasks>>]_vars

\* C10: stop_bot returned early on a symbol that is registered with the
\* router (by a start_bot that raised) and not active.
C10_Witness ==
    /\ last_op.op = "stop_bot"
    /\ last_op.out = "noop"
    /\ last_op.arg \notin active_bots
    /\ strategy_queues[last_op.arg] # 0

\* C11: a PortfolioManager constructed after save_state() has the saved
\* balance_real, position_size, avg_entry_price, n_entries and grids; one
\* constructed with no state file has the default empty state.
C11_PersistLoadRoundTrip ==
    [][last_op'.op = "construct"
          => IF state_file = <<>>
             THEN /\ balance_real' = INITIAL_CAPITAL
                  /\ position_size' = 0
                  /\ avg_entry_price' = Zero
                  /\ n_entries' = 0
                  /\ long_grid_prices' = <<>>
                  /\ short_grid_prices' = <<>>
             ELSE /\ balance_real' = state_file[1].balance_real
                  /\ position_size' = state_file[1].position_size
                  /\ avg_entry_price' = state_file[1].avg_entry_price
                  /\ n_entries' = state_file[1].n_entries
                  /\ long_grid_prices' = state_file[1].long_grid_prices
                  /\ short_grid_prices' = state_file[1].short_grid_prices]_vars

\* C11: a construction loaded a saved state with an open short position, an
\* entry count and a staged grid.
C11_Witness ==
    /\ last_op.op = "construct"
    /\ last_op.out = "loaded"
    /\ position_size < 0
    /\ avg_entry_price # Zero
    /\ n_entries > 0
    /\ short_grid_prices # <<>>
    /\ Snapshot = state_file[1]

\* C12: after any sequence of fetches the cached bars have strictly
\* increasing timestamps (so no timestamp twice), whatever rows the exchange
\* returned.
C12_CacheStrictlyIncreasing ==
    \A i, j \in 1..Len(data_cache) : i < j => data_cache[i] < data_cache[j]

\* C20: run_optimization_for_ticker returns None when every combination it
\* evaluated has net_profit <= -100, and otherwise the combination with the
\* greatest net_profit.
C20_NullOrBest ==
    LET e == optimization.evaluated
    IN  IF \A i \in 1..Len(e) : e[i] <= Sentinel
        THEN ~optimization.found
        ELSE /\ optimization.found
             /\ optimization.best \in 1..Len(e)
             /\ e[optimization.best] = optimization.net_profit
             /\ \A i \in 1..Len(e) : e[i] <= optimization.net_profit

C14_RiskAtMostThreePct ==
    [][(last_op'.op = "handle_signal" /\ last_op'.out = "entry")
           => LET order == order_queue'[Len(order_queue')]
              IN  order.qty * last_known_price * GRID_WIDTH_PCT <= 3 * balance_real]_vars

\* C15: a cycle that is aborted (no tradable universe, no candidates, no
\* valid ticker, or a backtest that raises) leaves the selection unchanged,
\* issues no start or stop command, and leaves the orchestrator loop running
\* towards its next cycle.
C15_AbortedCycleRetries ==
    [][(\/ last_op'.op \in {"fetch_tradable", "fetch_top_tokens"} /\ last_op'.out = "halted"
        \/ last_op'.op = "backtests" /\ last_op'.out = "raised")
           => /\ current_top_5_tokens' = current_top_5_tokens
              /\ bot_manager_calls' = bot_manager_calls
              /\ orch_pc' = "sleep"]_vars

\* C16: a reconciliation issues stop_bot for exactly the symbols of
\* current \ new and start_bot for exactly those of new \ current, every stop
\* before any start.
C16_StopsThenStarts ==
    [][last_op'.op = "reconcile"
          => LET calls == bot_manager_calls'
                 to_stop == current_top_5_tokens \ current_top_5_tokens'
                 to_start == current_top_5_tokens' \ current_top_5_tokens
             IN  /\ Len(calls) = Cardinality(to_stop) + Cardinality(to_start)
                 /\ {calls[i] : i \in 1..Len(calls)} =
                        {[call |-> "stop_bot", symbol |-> t] : t \in to_stop}
                        \cup {[call |-> "start_bot", symbol |-> t] : t \in to_start}
                 /\ \A i, j \in 1..Len(calls) :
                        (i < j /\ calls[i].call = "start_bot") => calls[j].call = "start_bot"]_vars

\* C17: on a termination signal the state of every agent that is active in
\* the fleet's BotManager is persisted, before any task is cancelled.
C17_ShutdownSavesActive ==
    [][last_op'.op = "handle_shutdown"
          => (AgentSym \in active_bots => state_file' = <<Snapshot>>)]_vars

\* C18: the fill that takes the position from LONG or SHORT to FLAT persists
\* the agent state within its handling: the state file then holds a flat
\* position.
C18_FlatIsPersisted ==
    [][(last_op'.op = "handle_fill" /\ position_size # 0 /\ position_size' = 0)
           => /\ state_file' # <<>>
              /\ state_file'[1].position_size = 0]_vars

\* C19: a PriceUpdate delivered on the agent's price channel becomes
\* last_known_price; and an ENTRY signal handled while FLAT before any price
\* was received puts no order and raises no error.
C19_PriceBeforeEntry ==
    [][/\ last_op'.op = "process_tick"
              => last_known_price' = price_update_queue'[Len(price_update_queue')]
       /\ (last_op'.op = "handle_signal" /\ position_size = 0 /\ last_known_price = 0)
              => /\ order_queue' = order_queue
                 /\ tasks' = tasks]_vars

\* C21: when stop_bot on an active symbol completes, the symbol is not
\* active, the agent's tasks have terminated, the symbol is deregistered from
\* the router and unsubscribed on the gateway, the unsubscription being the
\* last step of a call that returns.
C21_StopBotCompletes ==
    [][last_op'.op = "stop_bot_finish"
          => /\ last_op'.out = "stopped"
             /\ last_op'.arg \notin active_bots'
             /\ \A t \in DOMAIN tasks : tasks'[t] # "running"
             /\ strategy_queues'[last_op'.arg] = 0
             /\ last_op'.arg \notin connector_symbols']_vars

\* C22: start_bot on a symbol that is not active leaves it active, registered
\* with the router and subscribed on the gateway, with its run loops
\* launched; no symbol is registered with the router without being active.
C22_StartBotActivates ==
    [][(last_op'.op = "start_bot" /\ last_op'.arg \notin active_bots)
           => /\ last_op'.arg \in active_bots'
              /\ strategy_queues'[last_op'.arg] # 0
              /\ last_op'.arg \in connector_symbols'
              /\ \A t \in DOMAIN tasks : tasks'[t] = "running"]_vars

\* C23: for every order the gateway accepts, the executor puts exactly one
\* FillConfirmation with the order's side and qty at the end of the fill
\* channel (orders are taken from the head of the order queue, in order).
C23_AcceptedOrderFills ==
    [][(last_op'.op = "execute_order" /\ last_op'.out # "rejected")
           => /\ order_queue' = Tail(order_queue)
              /\ Len(fill_confirmation_queue') = Len(fill_confirmation_queue) + 1
              /\ SubSeq(fill_confirmation_queue', 1, Len(fill_confirmation_queue))
                    = fill_confirmation_queue
              /\ LET fill == fill_confirmation_queue'[Len(fill_confirmation_queue')]
                 IN  /\ fill.side = Head(order_queue).side
                     /\ fill.qty = Head(order_queue).qty]_vars

\* C24: a BUY fill at price base replaces long_grid_prices by
\* base * (1 - i * GRID_WIDTH_PCT / 100) for i = 1..MAX_ENTRIES-1, a SELL fill
\* replaces short_grid_prices by base * (1 + i * GRID_WIDTH_PCT / 100).
C24_GridLevels ==
    [][last_op'.op = "handle_fill"
          => LET fill == Head(fill_confirmation_queue)
                 grid == IF fill.side = "BUY" THEN long_grid_prices' ELSE short_grid_prices'
                 sign == IF fill.side = "BUY" THEN -1 ELSE 1
             IN  /\ Len(grid) = MAX_ENTRIES - 1
                 /\ \A i \in 1..Len(grid) :
                        grid[i] * 100 = fill.price * (100 + sign * i * GRID_WIDTH_PCT)]_vars

\* C24: the first BUY fill, at 100: position 1, average 100, one entry and
\* the long grid [99].
C24_Witness ==
    /\ last_op.op = "handle_fill"
    /\ last_op.arg = "BUY"
    /\ position_size = 1
    /\ avg_entry_price = [num |-> 100, den |-> 1]
    /\ n_entries = 1
    /\ long_grid_prices = <<99>>

\* C25: after a fill that opens or adds to a position the number of staged
\* grid levels is MAX_ENTRIES - n_entries (n_entries after the increment): none
\* once n_entries = MAX_ENTRIES.
C25_StagedLevelsRemaining ==
    [][(last_op'.op = "handle_fill" /\ Abs(position_size') > Abs(position_size))
           => Len(long_grid_prices') + Len(short_grid_prices') = MAX_ENTRIES - n_entries']_vars

\* C26: a signal is put only when it is the one the bar's direction and the
\* position status warrant (ENTRY_LONG: direction +1 and not LONG, ENTRY_SHORT:
\* direction -1 and not SHORT) and differs from the signal put before it; the
\* memo is the last signal put.
C26_SignalsWarrantedNoRepeat ==
    [][/\ (last_op'.op = "generate_signals" /\ signal_queue' # signal_queue)
              => LET sig == signal_queue'[Len(signal_queue')]
                     status == GetPositionStatus(position_size)
                 IN  /\ signal_queue' = Append(signal_queue, sig)
                     /\ sig = "ENTRY_LONG" => (last_op'.arg = "up" /\ status # "LONG")
                     /\ sig = "ENTRY_SHORT" => (last_op'.arg = "down" /\ status # "SHORT")
                     /\ sig \in {"ENTRY_LONG", "ENTRY_SHORT"}
                     /\ sig # last_signal_sent
                     /\ last_signal_sent' = sig
       /\ last_signal_sent' # last_signal_sent
              => (last_op'.op = "generate_signals" /\ Len(signal_queue') > Len(signal_queue))]_vars

\* C26: an ENTRY_LONG put on a short position after an ENTRY_SHORT had been
\* put: the second signal differs from the first.
C26_Witness ==
    /\ last_op.op = "generate_signals"
    /\ last_op.out = "put"
    /\ last_op.arg = "up"
    /\ position_size < 0
    /\ signal_queue # <<>>
    /\ signal_queue[Len(signal_queue)] = "ENTRY_LONG"

\* C27: a fetch after the first merges the new bars into the cache and keeps
\* the whole 48-hour window: every cached bar among the FullLimit latest
\* after the merge is still cached.
C27_IncrementalKeepsWindow ==
    [][(last_op'.op = "fetch_historical_data" /\ last_op'.arg = "incremental")
           => LET newest == data_cache'[Len(data_cache')]
              IN  \A i \in 1..Len(data_cache) :
                      data_cache[i] > newest - FullLimit
                          => \E j \in 1..Len(data_cache') : data_cache'[j] = data_cache[i]]_vars

\* C28: the price channel of an agent that does not consume stays bounded:
\* it has a capacity, beyond which a push drops the oldest update, so however
\* many PriceUpdates are pushed it never holds them all (its capacity being
\* below the MaxPriceUpdates pushes followed here).
C28_PriceChannelBounded ==
    Len(price_update_queue) < MaxPriceUpdates

\* C29: a failed refresh of the tradable universe leaves the stored universe
\* unchanged and the cycle goes on with it; the cycle is aborted at the
\* refresh exactly when the universe is empty.
C29_FailedRefreshReusesUniverse ==
    [][last_op'.op = "fetch_tradable"
          => /\ last_op'.arg = "failed" => tradable_symbols' = tradable_symbols
             /\ tradable_symbols' # {} => orch_pc' = "fetch_top_tokens"
             /\ tradable_symbols' = {} => orch_pc' = "sleep"]_vars

\* C29: a refresh failed after an earlier one had stored a universe, and the
\* cycle goes on to the candidates.
C29_Witness ==
    /\ last_op = Op("fetch_tradable", "failed", "ok")
    /\ tradable_symbols # {}
    /\ orch_pc = "fetch_top_tokens"

\* C30: after a completed cycle the selection has at most five symbols, each
\* a valid ticker (a candidate that is tradable) with a non-null backtest
\* result, and no valid ticker with a result that was left out has a strictly
\* higher net_profit than a selected one.
C30_SelectionIsTopFive ==
    last_op.op = "reconcile"
        => /\ Cardinality(current_top_5_tokens) <= 5
           /\ \A t \in current_top_5_tokens :
                  /\ t \in tradable_symbols
                  /\ \E i \in 1..Len(results) : results[i].ticker = t /\ results[i].found
           /\ \A i, j \in 1..Len(results) :
                  (/\ results[i].found
                   /\ results[i].ticker \notin current_top_5_tokens
                   /\ results[j].ticker \in current_top_5_tokens)
                      => results[i].net_profit <= results[j].net_profit

\* C30: a cycle with six successful backtests: five tickers are selected and
\* one with a result is left out.
C30_Witness ==
    /\ last_op.op = "reconcile"
    /\ Cardinality(current_top_5_tokens) = 5
    /\ \E i \in 1..Len(results) :
           results[i].found /\ results[i].ticker \notin current_top_5_tokens
    /\ \E i, j \in 1..Len(results) : results[i].net_profit # results[j].net_profit

\* C31: when a task of the agent has ended with an unhandled error, the
\* BotManager treats the agent as stopped: its symbol is not in active_bots,
\* so that start_bot for it does not return early.
C31_CrashedAgentNotActive ==
    (\E t \in DOMAIN tasks : tasks[t] = "failed")
        => (AgentSym \notin active_bots /\ ~StartBotReturnsEarly(AgentSym))

\* C32: a failed write in save_state raises no error to the caller and
\* leaves the state in memory and the agent's tasks and queues as they were;
\* a stop_bot whose save fails goes on as with a save that succeeds: the
\* tasks are cancelled and the call proceeds to its gather.
C32_SaveFailureIsContained ==
    [][/\ (last_op'.op = "save_state" /\ last_op'.out # "saved")
              => /\ last_op'.out = "failed"
                 /\ pm_state' = pm_state
                 /\ tasks' = tasks
                 /\ queue_vars' = queue_vars
                 /\ active_bots' = active_bots
       /\ (last_op'.op = "stop_bot" /\ last_op'.out # "noop" /\ state_file' # <<Snapshot>>)
              => /\ last_op'.out \in {"managed", "unmanaged"}
                 /\ pm_state' = pm_state
                 /\ \A t \in {"strategy", "executor", "pm_run"} : tasks'[t] # "running"
                 /\ last_op'.arg \in stopping'
                 /\ last_op'.arg \notin active_bots']_vars

\* C32: a stop_bot on an open position whose save failed: the file does not
\* hold the state in memory, and the call stands at its gather.
C32_Witness ==
    /\ last_op.op = "stop_bot"
    /\ last_op.out = "managed"
    /\ position_size # 0
    /\ state_file # <<Snapshot>>
    /\ AgentSym \in stopping
    /\ tasks.pm_run = "cancelled"

\* C33: handling a signal changes no field of the agent state, whether it
\* puts an entry order, a flatten order or nothing; the grid lists change
\* only when a fill confirmation is processed.
C33_SignalLeavesState ==
    [][/\ last_op'.op = "handle_signal"
              => /\ position_size' = position_size
                 /\ avg_entry_price' = avg_entry_price
                 /\ n_entries' = n_entries
                 /\ long_grid_prices' = long_grid_prices
                 /\ short_grid_prices' = short_grid_prices
                 /\ balance_real' = balance_real
       /\ (long_grid_prices' # long_grid_prices \/ short_grid_prices' # short_grid_prices)
              => last_op'.op = "handle_fill"]_vars

\* C33: a reversal signal was handled on an open long position with a staged
\* grid: the flatten order is queued and the position, the entry count and
\* the grid are as the fill left them.
C33_Witness ==
    /\ last_op = Op("handle_signal", "ENTRY_SHORT", "flatten")
    /\ order_queue # <<>>
    /\ position_size > 0
    /\ n_entries > 0
    /\ long_grid_prices # <<>>

\* C34: within the agent, fill confirmations are applied in the order they
\* were put on the fill queue and signals are handled in the order they were
\* put on the signal queue, however the two loops interleave: each queue
\* only grows at its end and shrinks at its head, the fill applied is the
\* oldest one waiting and the signal handled is the oldest one waiting.
C34_ArrivalOrder ==
    [][/\ \/ fill_confirmation_queue' = fill_confirmation_queue
          \/ /\ last_op'.op = "handle_fill"
             /\ fill_confirmation_queue' = Tail(fill_confirmation_queue)
             /\ last_op'.arg = Head(fill_confirmation_queue).side
             /\ position_size' = position_size
                    + (IF Head(fill_confirmation_queue).side = "BUY" THEN 1 ELSE -1)
                      * Head(fill_confirmation_queue).qty
             /\ LET grid == IF Head(fill_confirmation_queue).side = "BUY"
                            THEN long_grid_prices' ELSE short_grid_prices'
                    sign == IF Head(fill_confirmation_queue).side = "BUY" THEN -1 ELSE 1
                IN  \A i \in 1..Len(grid) :
                        grid[i] * 100 = Head(fill_confirmation_queue).price
                                            * (100 + sign * i * GRID_WIDTH_PCT)
          \/ /\ last_op'.op \in {"fill_arrives", "execute_order"}
             /\ Len(fill_confirmation_queue') = Len(fill_confirmation_queue) + 1
             /\ SubSeq(fill_confirmation_queue', 1, Len(fill_confirmation_queue))
                    = fill_confirmation_queue
       /\ \/ signal_queue' = signal_queue
          \/ /\ last_op'.op = "handle_signal"
             /\ signal_queue' = Tail(signal_queue)
             /\ last_op'.arg = Head(signal_queue)
          \/ /\ last_op'.op = "generate_signals"
             /\ Len(signal_queue') = Len(signal_queue) + 1
             /\ SubSeq(signal_queue', 1, Len(signal_queue)) = signal_queue]_vars

\* C34: of two different fills waiting, the BUY at 100 put first has been
\* applied and the SELL at 200 put after it still waits, while two signals
\* wait in the other queue.
C34_Witness ==
    /\ last_op.op = "handle_fill"
    /\ last_op.arg = "BUY"
    /\ long_grid_prices = <<99>>
    /\ fill_confirmation_queue = <<[side |-> "SELL", qty |-> 1, price |-> 200]>>
    /\ Len(signal_queue) = 2

\* C35: while the agent is FLAT and an entry order is outstanding (put, its
\* fill not processed yet), handling a further signal puts no second entry
\* order: an entry order is put only when no order of the agent is waiting.
C35_OneUnfilledEntry ==
    [][(last_op'.op = "handle_signal" /\ last_op'.out = "entry" /\ reversal.phase = "none")
           => order_queue = <<>>]_vars

\* C36: when start_bot(s) ran while a stop_bot(s) was suspended between its
\* removal of s from active_bots and its deregistration, the end of stop_bot
\* leaves the registration start_bot made in place, and s, if active, is
\* registered with the router and subscribed on the gateway.
C36_LateDeregistrationSparesNewAgent ==
    [][(/\ last_op'.op = "stop_bot_finish"
        /\ strategy_queues[last_op'.arg] \notin {0, AgentQueueId})
           => /\ strategy_queues'[last_op'.arg] = strategy_queues[last_op'.arg]
              /\ last_op'.arg \in active_bots'
                    => (strategy_queues'[last_op'.arg] # 0
                        /\ last_op'.arg \in connector_symbols')]_vars

============================================================================
